---- MODULE Spec2Model ----
(***************************************************************************)
(* A model of scraper.py: the URL normaliser, the pagination traversal,    *)
(* the partition of the links over the workers, the per-link extraction    *)
(* pipeline and the two CSV sinks guarded by csv_lock.                     *)
(*                                                                         *)
(* Text is modelled by TLA+ strings, handled as the code handles Python    *)
(* strings (Len, SubSeq and \o are the only primitives used).  The browser *)
(* and the site are the environment: every browser call returns a value    *)
(* drawn from a small pool, or raises.  The file system is assumed to work *)
(* (opening and writing a sink does not fail for external reasons).        *)
(***************************************************************************)
EXTENDS Integers, Sequences, FiniteSets, TLC

(***************************************************************************)
(* Python string primitives                                                *)
(***************************************************************************)
Ch(s, i) == SubSeq(s, i, i)

Uppers == "ABCDEFGHIJKLMNOPQRSTUVWXYZ"

Lowers == "abcdefghijklmnopqrstuvwxyz"

Digits == "0123456789"

\* c occurs in the string s (c a one-character string)
InStr(c, s) == \E i \in 1..Len(s) : Ch(s, i) = c

\* str.lower() on one character
LowerCh(c) ==
  IF InStr(c, Uppers)
  THEN Ch(Lowers, CHOOSE i \in 1..Len(Uppers) : Ch(Uppers, i) = c)
  ELSE c

RECURSIVE Lower(_)
\* str.lower()
Lower(s) == IF s = "" THEN "" ELSE LowerCh(Ch(s, 1)) \o Lower(SubSeq(s, 2, Len(s)))

IsSpace(c) == c = " "

RECURSIVE LStrip(_)
LStrip(s) == IF s # "" /\ IsSpace(Ch(s, 1)) THEN LStrip(SubSeq(s, 2, Len(s))) ELSE s

RECURSIVE RStrip(_)
RStrip(s) ==
  IF s # "" /\ IsSpace(Ch(s, Len(s))) THEN RStrip(SubSeq(s, 1, Len(s) - 1)) ELSE s

\* str.strip()
Strip(s) == RStrip(LStrip(s))

\* s[i:] and s[:i] with Python's 0-based i, 0 <= i
From(s, i) == SubSeq(s, i + 1, Len(s))

Upto(s, i) == SubSeq(s, 1, IF i < Len(s) THEN i ELSE Len(s))

\* str.startswith
StartsWith(s, p) == Len(p) <= Len(s) /\ SubSeq(s, 1, Len(p)) = p

\* `sub in s`
Contains(s, sub) ==
  \E i \in 0..(Len(s) - Len(sub)) : SubSeq(s, i + 1, i + Len(sub)) = sub

\* the 0-based index of the first character of s at or after `start` that is
\* one of the characters of `chars`; Len(s) when there is none
FindAny(s, chars, start) ==
  LET hits == {i \in start..(Len(s) - 1) : InStr(Ch(s, i + 1), chars)}
  IN  IF hits = {} THEN Len(s) ELSE CHOOSE i \in hits : \A j \in hits : i <= j

RECURSIVE RStripSlash(_)
\* path.rstrip("/")
RStripSlash(s) ==
  IF s # "" /\ Ch(s, Len(s)) = "/" THEN RStripSlash(SubSeq(s, 1, Len(s) - 1)) ELSE s

RECURSIVE CollapseSlashes(_)
\* re.sub(r"/+", "/", s)
CollapseSlashes(s) ==
  IF Len(s) < 2 THEN s
  ELSE IF Ch(s, 1) = "/" /\ Ch(s, 2) = "/"
       THEN CollapseSlashes(SubSeq(s, 2, Len(s)))
       ELSE Ch(s, 1) \o CollapseSlashes(SubSeq(s, 2, Len(s)))

RECURSIVE SplitSlash(_)
\* s.split('/')
SplitSlash(s) ==
  LET i == FindAny(s, "/", 0)
  IN  IF i = Len(s) THEN <<s>> ELSE <<Upto(s, i)>> \o SplitSlash(From(s, i + 1))

RECURSIVE JoinSlash(_)
\* '/'.join(segs)
JoinSlash(segs) ==
  IF segs = <<>> THEN ""
  ELSE IF Len(segs) = 1 THEN segs[1]
       ELSE segs[1] \o "/" \o JoinSlash(Tail(segs))

(***************************************************************************)
(* urllib.parse, as far as normalize_url uses it (params, ';', are not     *)
(* modelled: no input of the model holds a ';')                            *)
(***************************************************************************)
SchemeChars == Uppers \o Lowers \o Digits \o "+-."

\* urllib.parse.uses_netloc and uses_relative, the schemes the model's inputs meet
UsesNetloc == {"", "ftp", "http", "https", "file", "ws", "wss"}

UsesRelative == {"", "ftp", "http", "https", "file", "ws", "wss"}

\* urlsplit, last part: query and path of what is left (qm: where '?' is)
SplitQuery(scheme, netloc, url3, frag, qm) ==
  [ok |-> InStr("[", netloc) = InStr("]", netloc),
   scheme |-> scheme, netloc |-> netloc,
   path |-> Upto(url3, qm), query |-> From(url3, qm + 1), fragment |-> frag]

\* urlsplit, third part: the fragment (hash: where '#' is)
SplitFragment(scheme, netloc, url2, hash) ==
  SplitQuery(scheme, netloc, Upto(url2, hash), From(url2, hash + 1),
             FindAny(Upto(url2, hash), "?", 0))

\* urlsplit, second part: the netloc of url[:2] == '//' (delim: where it ends)
SplitNetloc(scheme, url1, delim) ==
  IF Upto(url1, 2) = "//"
  THEN SplitFragment(scheme, SubSeq(url1, 3, delim), From(url1, delim),
                     FindAny(From(url1, delim), "#", 0))
  ELSE SplitFragment(scheme, "", url1, FindAny(url1, "#", 0))

\* urlsplit, first part: the scheme (colon: where the first ':' is)
SplitScheme(url0, colon) ==
  IF /\ colon > 0
     /\ colon < Len(url0)
     /\ InStr(Ch(url0, 1), Uppers \o Lowers)
     /\ \A i \in 1..colon : InStr(Ch(url0, i), SchemeChars)
  THEN SplitNetloc(Lower(Upto(url0, colon)), From(url0, colon + 1),
                   FindAny(From(url0, colon + 1), "/?#", 2))
  ELSE SplitNetloc("", url0, FindAny(url0, "/?#", 2))

\* urlsplit(url): [ok, scheme, netloc, path, query, fragment]; ok = FALSE stands
\* for the ValueError urlsplit raises on an unbalanced '[' or ']' in the netloc
urlsplit(url0) == SplitScheme(url0, FindAny(url0, ":", 0))

\* urlunsplit((scheme, netloc, path, query, fragment))
urlunsplit(scheme, netloc, path, query, fragment) ==
  LET u1 == IF netloc # "" \/ (scheme # "" /\ scheme \in UsesNetloc /\ Upto(path, 2) # "//")
            THEN "//" \o netloc \o (IF path # "" /\ Ch(path, 1) # "/" THEN "/" ELSE "") \o path
            ELSE path
      u2 == IF scheme # "" THEN scheme \o ":" \o u1 ELSE u1
      u3 == IF query # "" THEN u2 \o "?" \o query ELSE u2
  IN  IF fragment # "" THEN u3 \o "#" \o fragment ELSE u3

RECURSIVE DropEmpty(_)
\* filter(None, segs)
DropEmpty(segs) ==
  IF segs = <<>> THEN <<>>
  ELSE IF segs[1] = "" THEN DropEmpty(Tail(segs))
       ELSE <<segs[1]>> \o DropEmpty(Tail(segs))

RECURSIVE ResolveDots(_, _)
\* the loop of urljoin that removes '.' and '..' segments
ResolveDots(segs, acc) ==
  IF segs = <<>> THEN acc
  ELSE IF segs[1] = ".."
       THEN ResolveDots(Tail(segs), IF acc = <<>> THEN acc ELSE SubSeq(acc, 1, Len(acc) - 1))
       ELSE IF segs[1] = "."
            THEN ResolveDots(Tail(segs), acc)
            ELSE ResolveDots(Tail(segs), Append(acc, segs[1]))

\* base_parts of urljoin: bpath.split('/') without a non-empty last part
BaseParts(parts) ==
  IF parts[Len(parts)] # "" THEN SubSeq(parts, 1, Len(parts) - 1) ELSE parts

\* segments[1:-1] = filter(None, segments[1:-1])
FilterInner(segs) ==
  IF Len(segs) < 3 THEN segs
  ELSE <<segs[1]>> \o DropEmpty(SubSeq(segs, 2, Len(segs) - 1)) \o <<segs[Len(segs)]>>

\* the segments urljoin resolves
JoinSegments(bpath, path) ==
  IF Upto(path, 1) = "/" THEN SplitSlash(path)
  ELSE FilterInner(BaseParts(SplitSlash(bpath)) \o SplitSlash(path))

\* the resolved path of urljoin
ResolvedPath(segs) ==
  JoinSlash(IF segs[Len(segs)] \in {".", ".."}
            THEN Append(ResolveDots(segs, <<>>), "")
            ELSE ResolveDots(segs, <<>>))

OrSlash(path) == IF path = "" THEN "/" ELSE path

\* urljoin on the parsed base b and the parsed url p
JoinParsed(b, p, scheme, url) ==
  IF scheme # b.scheme \/ scheme \notin UsesRelative THEN url
  ELSE IF scheme \in UsesNetloc /\ p.netloc # ""
       THEN urlunsplit(scheme, p.netloc, p.path, p.query, p.fragment)
  ELSE IF p.path = ""
       THEN urlunsplit(scheme, b.netloc, b.path,
                       IF p.query = "" THEN b.query ELSE p.query, p.fragment)
  ELSE urlunsplit(scheme, b.netloc, OrSlash(ResolvedPath(JoinSegments(b.path, p.path))),
                  p.query, p.fragment)

JoinDefaultScheme(b, p, url) ==
  JoinParsed(b, p, IF p.scheme = "" THEN b.scheme ELSE p.scheme, url)

\* urljoin(base, url), for a base that urlsplit accepts
urljoin(base, url) ==
  IF base = "" THEN url
  ELSE IF url = "" THEN base
  ELSE JoinDefaultScheme(urlsplit(base), urlsplit(url), url)

(***************************************************************************)
(* normalize_url                                                           *)
(***************************************************************************)
SEARCH_URL == "https://www.apartments.com/apartments/seattle-wa/"

\* lines 60-62: lowercase the netloc and drop one leading "www."
StripWww(netloc) == IF StartsWith(netloc, "www.") THEN From(netloc, 4) ELSE netloc

\* lines 58-70 on the parsed url p
Rebuild(p) ==
  urlunsplit(IF p.scheme = "" THEN "https" ELSE p.scheme,
             StripWww(Lower(p.netloc)),
             RStripSlash(CollapseSlashes(OrSlash(p.path))), "", "")

\* lines 53-57 on the parsed url p0: without a netloc, join with SEARCH_URL
Rejoin(p0, u) ==
  IF ~p0.ok THEN [ok |-> FALSE]
  ELSE IF p0.netloc = "" THEN urlsplit(urljoin(SEARCH_URL, u))
  ELSE p0

RebuildOk(p) == IF ~p.ok THEN "" ELSE Rebuild(p)

\* the body of normalize_url after the scheme test, for a stripped u
NormalizeSplit(u) == RebuildOk(Rejoin(urlsplit(u), u))

\* normalize_url(u); "" is the unusable sentinel
normalize_url(u) ==
  IF u = "" THEN ""
  ELSE LET s == Strip(u)
       IN  IF StartsWith(Lower(s), "javascript:") \/ StartsWith(Lower(s), "mailto:")
           THEN ""
           ELSE NormalizeSplit(s)

(***************************************************************************)
(* The URLs of the model                                                   *)
(***************************************************************************)
\* the href attributes the anchors of the result pages carry
RawHrefs == {"https://www.apartments.com/a/", "HTTPS://apartments.com//a?x=1",
             "/b", "javascript:void(0)", "tel:1"}

\* the hrefs behind the links the workers are given, in page order
RunRawHrefs == <<"https://www.www.x.com/a", "https://x.com/a", "https://x.com/b",
                 "https://x.com/c", "https://x.com/d">>

\* the link the partitioner's i-th input stands for (i <= 26)
PartLink(i) == "https://x.com/" \o Ch(Lowers, i)

\* the most links the partitioner is given
MaxPartLinks == 10

\* the raw strings normalize_url is called on by itself: every spelling of
\* scheme, host and path below, and the inputs that are no http(s) URL
NormSchemes == {"http://", "HTTP://", "https://", "//", ""}

NormHosts == {"WWW.Example.com", "www.www.x.com", "x.com"}

NormPaths == {"", "/", "//a//b/", "/a/?q=1#f"}

NormOthers == {"", " ", "javascript:void(0)", " JavaScript:x ", "mailto:a@b.com", "MAILTO:a",
               "tel:1", "data:text/plain,hi", "http://[::1/a", "/b", "../x"}

NormalizePool ==
  {sch \o host \o path : sch \in NormSchemes, host \in NormHosts, path \in NormPaths}
    \cup NormOthers

\* every string the model hands to normalize_url, and normalize_url tabulated
\* over them (the table is computed once; Normalized(u) is normalize_url(u))
NormalizeInputs ==
  RawHrefs \cup {RunRawHrefs[i] : i \in DOMAIN RunRawHrefs}
    \cup {normalize_url(RunRawHrefs[i]) : i \in DOMAIN RunRawHrefs}
    \cup {PartLink(i) : i \in 1..(MaxPartLinks + 1)}
    \cup NormalizePool \cup {normalize_url(x) : x \in NormalizePool}

NormalizeTable == [u \in NormalizeInputs |-> normalize_url(u)]

Normalized(u) == NormalizeTable[u]

\* what the traversal returns when the pages show the hrefs of RunRawHrefs in
\* this order: their normal forms, which are distinct and none the sentinel
RunLinks == [i \in DOMAIN RunRawHrefs |-> Normalized(RunRawHrefs[i])]

(***************************************************************************)
(* The extraction pipeline's pure parts (process_link_batch, lines 313-388)*)
(***************************************************************************)
\* built_year = None, and the empty built_year cell of an audit row
NoYear == -1

MIN_YEAR == 2023

CITY_FILTER == "Seattle"

RECURSIVE SkipSpaces(_, _)
\* \s* from the 1-based position j on: the position of the next non-space
SkipSpaces(text, j) ==
  IF j <= Len(text) /\ IsSpace(Ch(text, j)) THEN SkipSpaces(text, j + 1) ELSE j

\* [0-9]{4} at the 1-based position j
FourDigitsAt(text, j) ==
  /\ j + 3 <= Len(text)
  /\ \A k \in j..(j + 3) : InStr(Ch(text, k), Digits)

DigitVal(c) == (CHOOSE d \in 1..Len(Digits) : Ch(Digits, d) = c) - 1

\* int() of the four digits at j
ParseInt4(text, j) ==
  1000 * DigitVal(Ch(text, j)) + 100 * DigitVal(Ch(text, j + 1))
    + 10 * DigitVal(Ch(text, j + 2)) + DigitVal(Ch(text, j + 3))

\* the pattern r'Built in\s*([0-9]{4})', case-insensitive, matches at position i
MatchesAt(text, i) ==
  /\ i + 7 <= Len(text)
  /\ Lower(SubSeq(text, i, i + 7)) = "built in"
  /\ FourDigitsAt(text, SkipSpaces(text, i + 8))

\* the positions where the pattern matches, and the leftmost of them
MatchStarts(text) == {i \in 1..Len(text) : MatchesAt(text, i)}

FirstOf(S) == CHOOSE i \in S : \A j \in S : i <= j

\* re.search(...) and int(m.group(1)): [found, year]
BuiltInSearch(text) ==
  IF MatchStarts(text) = {} THEN [found |-> FALSE, year |-> NoYear]
  ELSE [found |-> TRUE,
        year  |-> ParseInt4(text, SkipSpaces(text, FirstOf(MatchStarts(text)) + 8))]

\* lines 325-330 and 332-337: the stripped text of the first element of the
\* query q = [fail, texts], when the query and .text do not raise and that
\* text is not blank; else the field keeps its initial ""
FirstText(q) ==
  IF ~q.fail /\ q.texts # <<>> /\ Strip(q.texts[1]) # "" THEN Strip(q.texts[1]) ELSE ""

\* lines 340-348: the meta description's content, when the address is empty
MetaFallback(address, meta) ==
  IF address # "" THEN address
  ELSE IF ~meta.fail /\ meta.texts # <<>> /\ meta.texts[1] # ""
       THEN Strip(meta.texts[1])
       ELSE ""

ExtractAddress(p) == MetaFallback(FirstText(p.addr), p.meta)

\* the year filter with <= for <
TooOld_OrEqual(built_year, minYear) == built_year <= minYear

\* line 366: the year filter
TooOld(built_year, minYear) == built_year < minYear

\* lines 374-375: the city filter
CityMismatch(address, city) ==
  city # "" /\ (address = "" \/ ~Contains(Lower(address), Lower(city)))

\* the filters with the city filter ahead of the year filter
Classify_CityFirst(title, address, m, minYear, city) ==
  IF ~m.found
  THEN [title |-> title, address |-> address, built_year |-> NoYear,
        status |-> "no_built_in", note |-> "'Built in' phrase not found"]
  ELSE IF CityMismatch(address, city)
  THEN [title |-> title, address |-> address, built_year |-> m.year,
        status |-> "city_mismatch",
        note |-> "Address does not contain '" \o city \o "'"]
  ELSE IF TooOld(m.year, minYear)
  THEN [title |-> title, address |-> address, built_year |-> m.year,
        status |-> "too_old",
        note |-> "Built in " \o ToString(m.year) \o " < " \o ToString(minYear)]
  ELSE [title |-> title, address |-> address, built_year |-> m.year,
        status |-> "saved", note |-> "Built in " \o ToString(m.year)]

\* lines 356-388: status, built_year and note from the extracted fields
Classify(title, address, m, minYear, city) ==
  IF ~m.found
  THEN [title |-> title, address |-> address, built_year |-> NoYear,
        status |-> "no_built_in", note |-> "'Built in' phrase not found"]
  ELSE IF TooOld(m.year, minYear)
  THEN [title |-> title, address |-> address, built_year |-> m.year,
        status |-> "too_old",
        note |-> "Built in " \o ToString(m.year) \o " < " \o ToString(minYear)]
  ELSE IF CityMismatch(address, city)
  THEN [title |-> title, address |-> address, built_year |-> m.year,
        status |-> "city_mismatch",
        note |-> "Address does not contain '" \o city \o "'"]
  ELSE [title |-> title, address |-> address, built_year |-> m.year,
        status |-> "saved", note |-> "Built in " \o ToString(m.year)]

\* lines 390-394: the except branch; the fields keep what they held
ErrorRecord(title, address, what) ==
  [title |-> title, address |-> address, built_year |-> NoYear,
   status |-> "error", note |-> what]

\* lines 318-394: one visit of the page p = [nav, h1, addr, meta, src]
VisitPage(p, minYear, city) ==
  IF ~p.nav THEN ErrorRecord("", "", "driver.get failed")
  ELSE IF p.src.fail
       THEN ErrorRecord(FirstText(p.h1), ExtractAddress(p), "page_source failed")
       ELSE Classify(FirstText(p.h1), ExtractAddress(p),
                     BuiltInSearch(p.src.text), minYear, city)

\* line 430: the url cell of a result row
Hyperlink(url, title) ==
  "=HYPERLINK(\"" \o url \o "\", \"" \o (IF title = "" THEN "Listing" ELSE title) \o "\")"

RECURSIVE DedupLoop(_, _, _)
\* lines 403-410: res = [title, address, built_year, url] records
DedupLoop(res, seen_res, unique) ==
  IF res = <<>> THEN unique
  ELSE IF Normalized(Head(res).url) = "" \/ Normalized(Head(res).url) \in seen_res
       THEN DedupLoop(Tail(res), seen_res, unique)
       ELSE DedupLoop(Tail(res), seen_res \cup {Normalized(Head(res).url)},
                      Append(unique, Head(res)))

\* the results left as they are
Dedup_None(res) == res

\* lines 401-411
Dedup(res) == IF res = <<>> THEN res ELSE DedupLoop(res, {}, <<>>)

\* lines 452-454
MinOf(a, b) == IF a < b THEN a ELSE b

\* the batch size rounded down
Ceil_Floor(n, d) == n \div d

\* math.ceil(n / d) for the positive d and the small n of the model
Ceil(n, d) == (n + d - 1) \div d

\* links[lo:hi] with Python's clipping
Slice(q, lo, hi) == SubSeq(q, MinOf(lo, Len(q)) + 1, MinOf(hi, Len(q)))

Batches(lnks, nworkers, size) ==
  [i \in 1..nworkers |-> Slice(lnks, (i - 1) * size, i * size)]

(***************************************************************************)
(* Bounds and input pools                                                  *)
(***************************************************************************)
\* the most elements one DOM query returns
MaxAnchors == 1

\* an element handle of a DOM query: get_attribute("href") returns a string,
\* returns None, or raises
Elems == [kind : {"href"}, href : RawHrefs]
           \cup {[kind |-> "none", href |-> ""], [kind |-> "raise", href |-> ""]}

RECURSIVE SeqsUpTo(_, _)
\* the sequences over S of length at most n
SeqsUpTo(S, n) ==
  IF n = 0 THEN {<<>>}
  ELSE LET shorter == SeqsUpTo(S, n - 1)
       IN  shorter \cup {Append(q, e) : q \in shorter, e \in S}

\* what driver.find_elements returns: a list of elements, or it raises
QueryResults == [fail : {FALSE}, elems : SeqsUpTo(Elems, MaxAnchors)]
                  \cup {[fail |-> TRUE, elems |-> <<>>]}

\* the values driver.current_url takes
PageUrls == {SEARCH_URL, "https://www.apartments.com/apartments/seattle-wa/2/",
             "https://www.apartments.com/apartments/seattle-wa/3/"}

\* len(link_selectors) and len(next_xpaths)
NumSelectors == 6

NumNextXpaths == 6

\* the threshold of `if len(page_links) >= 30: break`
PageLinksEnough == 30

\* the default of collect_listing_links's max_pages, and the global MAX_LISTINGS
\* (None, which the model writes 0 as Python's truth test treats both alike)
MAX_PAGES_DEFAULT == 50

MAX_LISTINGS == 0

\* the values of the parameters max_pages and max_listings (0: None)
MaxPagesChoices == {2, MAX_PAGES_DEFAULT}

MaxListingsChoices == {0, 2}

\* what one attempt on a "next" locator does (lines 245-271):
\*   none         find_element raises (no such element)
\*   attr_raise   el.get_attribute("href") raises
\*   clicked      the click succeeds
\*   nav          the click raises, href is set and driver.get(href) succeeds
\*   no_href      the click raises and href is empty
\*   nav_raise    the click raises, href is set and driver.get(href) raises
NextOutcomes == {"none", "attr_raise", "clicked", "nav", "no_href", "nav_raise"}

\* the most links the traversal hands to main, and the most workers asked for
MaxLinks == 2

MaxW == 2

\* the most links of a run that starts without sinks
MaxFreshLinks == 3

\* the most workers the partitioner alone is asked for
MaxPartW == 4

\* a DOM query that raises, and one that returns elements with these texts
QFail == [fail |-> TRUE, texts |-> <<>>]

QTexts(texts) == [fail |-> FALSE, texts |-> texts]

\* driver.page_source: raises, or is this text
SrcFail == [fail |-> TRUE, text |-> ""]

SrcText(text) == [fail |-> FALSE, text |-> text]

\* the page a failed driver.get leaves
NavFailPage ==
  [nav |-> FALSE, h1 |-> QFail, addr |-> QFail, meta |-> QFail, src |-> SrcFail]

\* the pages the site serves to the workers of a whole run
RunPages ==
  { NavFailPage,
    [nav |-> TRUE, h1 |-> QTexts(<<"Apt">>), addr |-> QTexts(<<"1 Pike St, Seattle">>),
     meta |-> QTexts(<<>>), src |-> SrcText("Built in 2024")],
    [nav |-> TRUE, h1 |-> QTexts(<<>>), addr |-> QTexts(<<"1 Pike St, Seattle">>),
     meta |-> QTexts(<<>>), src |-> SrcText("built in 2019")] }

\* the pages the site serves when one link is visited: every combination of
\* these answers of the h1 query, the address query, the meta query (a
\* content of "" stands for None) and page_source
H1Answers == {QFail, QTexts(<<>>), QTexts(<<" Apt ">>)}

AddrAnswers == {QFail, QTexts(<<>>), QTexts(<<"">>), QTexts(<<"", "9 Elm, Seattle">>),
                QTexts(<<"1 Pike St, SEATTLE">>), QTexts(<<"Tacoma">>)}

MetaAnswers == {QFail, QTexts(<<>>), QTexts(<<"">>), QTexts(<<" Apts in seattle ">>)}

SrcAnswers == {SrcFail, SrcText(""), SrcText("Built in 20"), SrcText("Built 2024"),
               SrcText("built in2019"), SrcText("Built in 2023"),
               SrcText("BUILT IN  2024x"), SrcText("Built in 202 built in 2024")}

AllPages ==
  {NavFailPage} \cup
  [nav : {TRUE}, h1 : H1Answers, addr : AddrAnswers, meta : MetaAnswers, src : SrcAnswers]

\* the values of min_year and city_filter when one link is visited
MinYearChoices == {MIN_YEAR, 2024}

CityChoices == {"", CITY_FILTER}

\* the rows of the two sinks
LogHeaderRow ==
  [kind |-> "header",
   cols |-> <<"worker", "index", "total", "title", "address", "url",
              "built_year", "status", "note">>]

ResHeaderRow == [kind |-> "header", cols |-> <<"title", "address", "built_year", "url">>]

\* a sink that does not exist, and what an earlier run left in each sink
NoFile == [exists |-> FALSE, rows |-> <<>>]

StaleLog ==
  [exists |-> TRUE,
   rows |-> <<LogHeaderRow,
              [kind |-> "row", worker |-> 1, index |-> 1, total |-> 1, title |-> "",
               address |-> "", url |-> "https://x.com/b", built_year |-> NoYear,
               status |-> "no_built_in", note |-> "'Built in' phrase not found"]>>]

StaleOut ==
  [exists |-> TRUE,
   rows |-> <<ResHeaderRow,
              [kind |-> "row", title |-> "Old", address |-> "Seattle", built_year |-> 2024,
               url |-> Hyperlink("https://x.com/b", "Old")]>>]

VARIABLES
  \* collect_listing_links: position, parameters and locals
  tpc, max_pages, max_listings, page_index, current_url,
  collected, seen, visited_page_urls, page_links, sel,
  \* main: position, the links, WORKERS, and the locals of lines 451-458
  mpc, links, W, workers, batch_size, batches, next_i, futures,
  \* the arguments min_year and city_filter of process_link_batch
  min_year, city_filter,
  \* results.csv, screened_log.csv, what screened_log.csv held when the run
  \* began, and the holder of csv_lock (0: free)
  out_csv, log_csv, log0, csv_lock,
  \* process_link_batch, per worker id: position, links, idx, results, the
  \* record of the link being visited, and the page its browser shows
  wpc, batch, idx, results, rec, browser,
  \* normalize_url called by itself: position, the raw string, its normal
  \* form (line 186), and the normal form of that (the key of line 406)
  npc, raw_href, norm_href, norm_key

travVars == <<tpc, max_pages, max_listings, page_index, current_url,
              collected, seen, visited_page_urls, page_links, sel>>

mainVars == <<mpc, links, W, workers, batch_size, batches, next_i, futures>>

argVars == <<min_year, city_filter>>

fileVars == <<out_csv, log_csv, log0, csv_lock>>

workerVars == <<wpc, batch, idx, results, rec, browser>>

runVars == <<mainVars, argVars, fileVars, workerVars>>

normVars == <<npc, raw_href, norm_href, norm_key>>

vars == <<travVars, runVars, normVars>>

\* normalize_url is not being called by itself
NormIdle ==
  /\ npc = "idle"
  /\ raw_href = ""
  /\ norm_href = ""
  /\ norm_key = ""

(***************************************************************************)
(* collect_listing_links                                                   *)
(***************************************************************************)
\* lines 184-188: the href is kept when get_attribute gave a non-empty string
\* and its normal form is not the sentinel ""
UsableHref(e) == e.kind = "href" /\ e.href # "" /\ Normalized(e.href) # ""

\* the test of line 189 left out
IsNew_Always(href, seenSet) == TRUE

\* line 189: `if href not in seen`
IsNew(href, seenSet) == href \notin seenSet

RECURSIVE GatherElems(_, _)
\* the loop over the elements of one query (lines 181-194 and 206-219);
\* st = [seen, page_links, collected]
GatherElems(elems, st) ==
  IF elems = <<>> THEN st
  ELSE IF ~UsableHref(Head(elems)) \/ ~IsNew(Normalized(Head(elems).href), st.seen)
       THEN GatherElems(Tail(elems), st)
       ELSE GatherElems(Tail(elems),
                        [seen       |-> st.seen \cup {Normalized(Head(elems).href)},
                         page_links |-> Append(st.page_links, Normalized(Head(elems).href)),
                         collected  |-> Append(st.collected, Normalized(Head(elems).href))])

\* the stop conditions left out
StopEarly_Never(n) == FALSE

\* the stop conditions of lines 226-231
StopEarly(n) ==
  \/ max_listings # 0 /\ n >= max_listings
  \/ MAX_LISTINGS # 0 /\ n >= MAX_LISTINGS

\* before main has the links: nothing of the run exists yet
RunIdle ==
  /\ mpc = "collect"
  /\ links = <<>>
  /\ W = 1
  /\ workers = 0
  /\ batch_size = 0
  /\ batches = <<>>
  /\ next_i = 1
  /\ futures = <<>>
  /\ min_year = MIN_YEAR
  /\ city_filter = CITY_FILTER
  /\ out_csv = NoFile
  /\ log_csv = NoFile
  /\ log0 = 0
  /\ csv_lock = 0
  /\ wpc = <<>>
  /\ batch = <<>>
  /\ idx = <<>>
  /\ results = <<>>
  /\ rec = <<>>
  /\ browser = <<>>

TravInit ==
  /\ tpc = "load"
  /\ max_pages \in MaxPagesChoices
  /\ max_listings \in MaxListingsChoices
  /\ page_index = 1
  /\ current_url = ""
  /\ collected = <<>>
  /\ seen = {}
  /\ visited_page_urls = {}
  /\ page_links = <<>>
  /\ sel = 0
  /\ RunIdle
  /\ NormIdle

\* line 111: driver.get(search_url), outside any try
TLoad ==
  /\ tpc = "load"
  /\ \E ok \in BOOLEAN : tpc' = IF ok THEN "page" ELSE "crashed"
  /\ UNCHANGED <<max_pages, max_listings, page_index, current_url,
                 collected, seen, visited_page_urls, page_links, sel>>
  /\ UNCHANGED <<runVars, normVars>>

\* the loop guard left out
AlreadyVisited_Never(u, visitedSet) == FALSE

\* line 131: `if current_url in visited_page_urls`
AlreadyVisited(u, visitedSet) == u \in visitedSet

\* lines 128-174: the head of one page iteration.  The scrolls and the
\* "show more" clicks change the browser only, and their exceptions are
\* swallowed: they are part of this step.
TPage ==
  /\ tpc = "page"
  /\ IF page_index > max_pages
     THEN /\ tpc' = "returned"
          /\ UNCHANGED <<current_url, visited_page_urls, page_links, sel>>
     ELSE \/ /\ tpc' = "crashed"      \* driver.current_url raises (line 129)
             /\ UNCHANGED <<current_url, visited_page_urls, page_links, sel>>
          \/ \E u \in PageUrls :
               /\ current_url' = u
               /\ IF AlreadyVisited(u, visited_page_urls)
                  THEN /\ tpc' = "returned"
                       /\ UNCHANGED <<visited_page_urls, page_links, sel>>
                  ELSE /\ visited_page_urls' = visited_page_urls \cup {u}
                       /\ page_links' = <<>>
                       /\ sel' = 1
                       /\ tpc' = "collect"
  /\ UNCHANGED <<max_pages, max_listings, page_index, collected, seen>>
  /\ UNCHANGED <<runVars, normVars>>

\* where the iteration goes once the selectors and the fallback are done
\* (lines 225-231)
AfterCollect(n) == IF StopEarly(n) THEN "returned" ELSE "advance"

\* lines 178-200: one selector of link_selectors
TSelect ==
  /\ tpc = "collect"
  /\ \E r \in QueryResults :
       LET st == IF r.fail
                 THEN [seen |-> seen, page_links |-> page_links, collected |-> collected]
                 ELSE GatherElems(r.elems, [seen |-> seen, page_links |-> page_links,
                                            collected |-> collected])
           last == (~r.fail /\ Len(st.page_links) >= PageLinksEnough) \/ sel = NumSelectors
       IN  /\ seen' = st.seen
           /\ page_links' = st.page_links
           /\ collected' = st.collected
           /\ sel' = IF last THEN 1 ELSE sel + 1
           /\ tpc' = IF ~last THEN "collect"
                     ELSE IF st.page_links = <<>> THEN "fallback"
                     ELSE AfterCollect(Len(st.collected))
  /\ UNCHANGED <<max_pages, max_listings, page_index, current_url, visited_page_urls>>
  /\ UNCHANGED <<runVars, normVars>>

\* lines 203-221: the fallback query, made when no selector gave a new link
TFallback ==
  /\ tpc = "fallback"
  /\ \E r \in QueryResults :
       LET st == IF r.fail
                 THEN [seen |-> seen, page_links |-> page_links, collected |-> collected]
                 ELSE GatherElems(r.elems, [seen |-> seen, page_links |-> page_links,
                                            collected |-> collected])
       IN  /\ seen' = st.seen
           /\ page_links' = st.page_links
           /\ collected' = st.collected
           /\ tpc' = AfterCollect(Len(st.collected))
  /\ UNCHANGED <<max_pages, max_listings, page_index, current_url,
                 visited_page_urls, sel>>
  /\ UNCHANGED <<runVars, normVars>>

\* lines 243-275: one locator of next_xpaths; sel counts the locators here
TAdvance ==
  /\ tpc = "advance"
  /\ \E o \in NextOutcomes :
       IF o \in {"clicked", "nav"}
       THEN /\ page_index' = page_index + 1
            /\ sel' = 1
            /\ tpc' = "page"
       ELSE /\ sel' = IF sel = NumNextXpaths THEN 1 ELSE sel + 1
            /\ tpc' = IF sel = NumNextXpaths THEN "returned" ELSE "advance"
            /\ UNCHANGED page_index
  /\ UNCHANGED <<max_pages, max_listings, current_url, collected, seen,
                 visited_page_urls, page_links>>
  /\ UNCHANGED <<runVars, normVars>>

TravNext == TLoad \/ TPage \/ TSelect \/ TFallback \/ TAdvance

SpecTraverse == TravInit /\ [][TravNext]_vars

\* the traversal is one sequential call: while it has not returned or
\* crashed, its next statement is executed
SpecTraverseFair == SpecTraverse /\ WF_vars(TravNext)

(***************************************************************************)
(* The sinks                                                               *)
(***************************************************************************)
\* a `with` that does not wait for the lock
LockFree_Always == TRUE

\* line 283 and line 415: `with csv_lock` enters when the lock is free
LockFree == csv_lock = 0

\* write_header set whatever the file
WriteHeader_Always(f) == TRUE

\* lines 286-291: write_header
WriteHeader(f) == ~f.exists

\* the row written only under `if write_header`
AppendLogRow_UnderHeader(f, row) ==
  [exists |-> TRUE,
   rows   |-> f.rows \o (IF WriteHeader(f) THEN <<LogHeaderRow, row>> ELSE <<>>)]

\* lines 292-296: the file after `with open(logfile, "a")` wrote the row
AppendLogRow(f, row) ==
  [exists |-> TRUE,
   rows   |-> f.rows \o (IF WriteHeader(f) THEN <<LogHeaderRow>> ELSE <<>>) \o <<row>>]

\* lines 429-431: the row written for one result
ResultRow(r) ==
  [kind |-> "row", title |-> r.title, address |-> r.address,
   built_year |-> r.built_year, url |-> Hyperlink(r.url, r.title)]

\* lines 418-426: the file when the `with open(output_csv, mode)` block is left
OpenResults(f) ==
  [exists |-> TRUE, rows |-> IF f.exists THEN f.rows ELSE <<ResHeaderRow>>]

\* the `for row in results` loop of line 428 stands after the with block of
\* lines 423-426, at the indentation of the `with`: the file is closed when
\* the loop runs
ClosedAtRowLoop == TRUE

RECURSIVE WriteRowLoop(_, _, _)
\* lines 428-433: writer.writerow on a closed file raises ValueError, which
\* line 432 catches; the loop is left at the first row
WriteRowLoop(rows, res, closed) ==
  IF res = <<>> \/ closed THEN rows
  ELSE WriteRowLoop(Append(rows, ResultRow(Head(res))), Tail(res), closed)

\* lines 415-433 under the lock
WriteResults(f, res) ==
  [exists |-> TRUE, rows |-> WriteRowLoop(OpenResults(f).rows, res, ClosedAtRowLoop)]

(***************************************************************************)
(* main, from the return of collect_listing_links on (lines 441-468)       *)
(***************************************************************************)
\* lines 441-448
MStart ==
  /\ mpc = "check"
  /\ IF links = <<>>
     THEN /\ mpc' = "done"
          /\ UNCHANGED out_csv
     ELSE /\ mpc' = "split"
          /\ out_csv' = [exists |-> TRUE, rows |-> <<ResHeaderRow>>]
  /\ UNCHANGED <<links, W, workers, batch_size, batches, next_i, futures>>
  /\ UNCHANGED <<log_csv, log0, csv_lock>>
  /\ UNCHANGED <<normVars, travVars, argVars, workerVars>>

\* lines 451-454
MSplit ==
  /\ mpc = "split"
  /\ workers' = MinOf(W, Len(links))
  /\ batch_size' = Ceil(Len(links), workers')
  /\ batches' = Batches(links, workers', batch_size')
  /\ next_i' = 1
  /\ mpc' = "submit"
  /\ UNCHANGED <<links, W, futures>>
  /\ UNCHANGED <<normVars, travVars, argVars, fileVars, workerVars>>

\* lines 459-462: one turn of the loop that submits the batches
MSubmit ==
  /\ mpc = "submit"
  /\ IF next_i > workers
     THEN /\ mpc' = "wait"
          /\ UNCHANGED <<next_i, futures, wpc, batch>>
     ELSE /\ next_i' = next_i + 1
          /\ mpc' = mpc
          /\ IF batches[next_i] = <<>>
             THEN UNCHANGED <<futures, wpc, batch>>
             ELSE /\ futures' = Append(futures, next_i)
                  /\ wpc' = [wpc EXCEPT ![next_i] = "start"]
                  /\ batch' = [batch EXCEPT ![next_i] = batches[next_i]]
  /\ UNCHANGED <<links, W, workers, batch_size, batches>>
  /\ UNCHANGED <<idx, results, rec, browser>>
  /\ UNCHANGED <<normVars, travVars, argVars, fileVars>>

\* f.result() outside the try
WaitResult_Propagates(anyFailed) == IF anyFailed THEN "crashed" ELSE "done"

\* lines 464-467: f.result() raises what the worker raised, inside a try
\* whose except branch prints it
WaitResult(anyFailed) == "done"

\* lines 463-468: every future has completed
MWait ==
  /\ mpc = "wait"
  /\ \A i \in 1..Len(futures) : wpc[futures[i]] \in {"done", "failed"}
  /\ mpc' = WaitResult(\E i \in 1..Len(futures) : wpc[futures[i]] = "failed")
  /\ UNCHANGED <<links, W, workers, batch_size, batches, next_i, futures>>
  /\ UNCHANGED <<normVars, travVars, argVars, fileVars, workerVars>>

(***************************************************************************)
(* process_link_batch (lines 301-433), worker w                            *)
(***************************************************************************)
\* the audit row with idx and len(links) in each other's place
LogRow_Swapped(w) ==
  [kind |-> "row", worker |-> w, index |-> Len(batch[w]), total |-> idx[w],
   title |-> rec[w].title, address |-> rec[w].address, url |-> batch[w][idx[w]],
   built_year |-> rec[w].built_year, status |-> rec[w].status, note |-> rec[w].note]

\* the audit row of the record rec[w] (the tuples of lines 362-394)
LogRow(w) ==
  [kind |-> "row", worker |-> w, index |-> idx[w], total |-> Len(batch[w]),
   title |-> rec[w].title, address |-> rec[w].address, url |-> batch[w][idx[w]],
   built_year |-> rec[w].built_year, status |-> rec[w].status, note |-> rec[w].note]

\* where the for loop of line 312 goes after the link idx[w]
AfterLink(w) == IF idx[w] + 1 > Len(batch[w]) THEN "quit" ELSE "visit"

\* the statuses whose branch reaches the pause of line 397: the three
\* rejections leave the iteration by `continue` (lines 363, 371, 380)
ReachesPause(status) == status \in {"saved", "error"}

\* line 308: make_chrome_driver, which may raise
WStart(w) ==
  /\ wpc[w] = "start"
  /\ \E ok \in BOOLEAN :
       wpc' = [wpc EXCEPT ![w] = IF ~ok THEN "failed"
                                 ELSE IF batch[w] = <<>> THEN "quit" ELSE "visit"]
  /\ idx' = [idx EXCEPT ![w] = 1]
  /\ UNCHANGED <<batch, results, rec, browser>>
  /\ UNCHANGED <<normVars, travVars, mainVars, argVars, fileVars>>

\* lines 313-394 up to the call of _append_log_row: the browser shows a page
\* of Pages, the record is made, and a saved record joins results
WVisit(w, Pages) ==
  /\ wpc[w] = "visit"
  /\ \E p \in Pages :
       /\ browser' = [browser EXCEPT ![w] = p]
       /\ rec' = [rec EXCEPT ![w] = VisitPage(p, min_year, city_filter)]
       /\ results' = [results EXCEPT ![w] =
            IF rec'[w].status = "saved"
            THEN Append(@, [title |-> rec'[w].title, address |-> rec'[w].address,
                            built_year |-> rec'[w].built_year, url |-> batch[w][idx[w]]])
            ELSE @]
  /\ wpc' = [wpc EXCEPT ![w] = "log_acquire"]
  /\ UNCHANGED <<batch, idx>>
  /\ UNCHANGED <<normVars, travVars, mainVars, argVars, fileVars>>

\* line 283: with csv_lock
WLogAcquire(w) ==
  /\ wpc[w] = "log_acquire"
  /\ LockFree
  /\ csv_lock' = w
  /\ wpc' = [wpc EXCEPT ![w] = "log_write"]
  /\ UNCHANGED <<out_csv, log_csv, log0>>
  /\ UNCHANGED <<batch, idx, results, rec, browser>>
  /\ UNCHANGED <<normVars, travVars, mainVars, argVars>>

\* lines 284-296
WLogWrite(w) ==
  /\ wpc[w] = "log_write"
  /\ log_csv' = AppendLogRow(log_csv, LogRow(w))
  /\ wpc' = [wpc EXCEPT ![w] = "log_release"]
  /\ UNCHANGED <<out_csv, log0, csv_lock>>
  /\ UNCHANGED <<batch, idx, results, rec, browser>>
  /\ UNCHANGED <<normVars, travVars, mainVars, argVars>>

\* the end of the with block of line 283, then `continue` or the fall to line 397
WLogRelease(w) ==
  /\ wpc[w] = "log_release"
  /\ csv_lock' = 0
  /\ IF ReachesPause(rec[w].status)
     THEN /\ wpc' = [wpc EXCEPT ![w] = "sleep"]
          /\ UNCHANGED idx
     ELSE /\ wpc' = [wpc EXCEPT ![w] = AfterLink(w)]
          /\ idx' = [idx EXCEPT ![w] = @ + 1]
  /\ UNCHANGED <<out_csv, log_csv, log0>>
  /\ UNCHANGED <<batch, results, rec, browser>>
  /\ UNCHANGED <<normVars, travVars, mainVars, argVars>>

\* line 397: time.sleep(random.uniform(*REQUEST_DELAY))
WSleep(w) ==
  /\ wpc[w] = "sleep"
  /\ wpc' = [wpc EXCEPT ![w] = AfterLink(w)]
  /\ idx' = [idx EXCEPT ![w] = @ + 1]
  /\ UNCHANGED <<batch, results, rec, browser>>
  /\ UNCHANGED <<normVars, travVars, mainVars, argVars, fileVars>>

\* lines 399-414: driver.quit(), which may raise, then the dedup pass
WQuit(w) ==
  /\ wpc[w] = "quit"
  /\ \E ok \in BOOLEAN :
       IF ok
       THEN /\ results' = [results EXCEPT ![w] = Dedup(@)]
            /\ wpc' = [wpc EXCEPT ![w] = IF results'[w] # <<>> THEN "res_acquire" ELSE "done"]
       ELSE /\ wpc' = [wpc EXCEPT ![w] = "failed"]
            /\ UNCHANGED results
  /\ UNCHANGED <<batch, idx, rec, browser>>
  /\ UNCHANGED <<normVars, travVars, mainVars, argVars, fileVars>>

\* line 415: with csv_lock
WResAcquire(w) ==
  /\ wpc[w] = "res_acquire"
  /\ LockFree
  /\ csv_lock' = w
  /\ wpc' = [wpc EXCEPT ![w] = "res_write"]
  /\ UNCHANGED <<out_csv, log_csv, log0>>
  /\ UNCHANGED <<batch, idx, results, rec, browser>>
  /\ UNCHANGED <<normVars, travVars, mainVars, argVars>>

\* lines 416-433
WResWrite(w) ==
  /\ wpc[w] = "res_write"
  /\ out_csv' = WriteResults(out_csv, results[w])
  /\ wpc' = [wpc EXCEPT ![w] = "res_release"]
  /\ UNCHANGED <<log_csv, log0, csv_lock>>
  /\ UNCHANGED <<batch, idx, results, rec, browser>>
  /\ UNCHANGED <<normVars, travVars, mainVars, argVars>>

\* the end of the with block of line 415
WResRelease(w) ==
  /\ wpc[w] = "res_release"
  /\ csv_lock' = 0
  /\ wpc' = [wpc EXCEPT ![w] = "done"]
  /\ UNCHANGED <<out_csv, log_csv, log0>>
  /\ UNCHANGED <<batch, idx, results, rec, browser>>
  /\ UNCHANGED <<normVars, travVars, mainVars, argVars>>

(***************************************************************************)
(* Specifications                                                          *)
(***************************************************************************)
\* the traversal has returned lnks
TravReturned(lnks) ==
  /\ tpc = "returned"
  /\ max_pages = MAX_PAGES_DEFAULT
  /\ max_listings = 0
  /\ page_index = 1
  /\ current_url = SEARCH_URL
  /\ collected = lnks
  /\ seen = {lnks[i] : i \in 1..Len(lnks)}
  /\ visited_page_urls = {SEARCH_URL}
  /\ page_links = <<>>
  /\ sel = 1
  /\ NormIdle

\* no record yet
NoRec == [title |-> "", address |-> "", built_year |-> NoYear,
          status |-> "unknown", note |-> ""]

\* main holds the links, WORKERS is nworkers, nothing is dispatched
MainHolds(lnks, nworkers) ==
  /\ TravReturned(lnks)
  /\ mpc = "check"
  /\ links = lnks
  /\ W = nworkers
  /\ workers = 0
  /\ batch_size = 0
  /\ batches = <<>>
  /\ next_i = 1
  /\ futures = <<>>
  /\ csv_lock = 0
  /\ wpc = [w \in 1..nworkers |-> "idle"]
  /\ batch = [w \in 1..nworkers |-> <<>>]
  /\ idx = [w \in 1..nworkers |-> 0]
  /\ results = [w \in 1..nworkers |-> <<>>]
  /\ rec = [w \in 1..nworkers |-> NoRec]
  /\ browser = [w \in 1..nworkers |-> NavFailPage]

\* a whole run from the return of collect_listing_links on
Init ==
  /\ \E n \in 0..MaxLinks, nworkers \in 1..MaxW :
       MainHolds(SubSeq(RunLinks, 1, n), nworkers)
  /\ min_year = MIN_YEAR
  /\ city_filter = CITY_FILTER
  /\ out_csv \in {NoFile, StaleOut}
  /\ log_csv \in {NoFile, StaleLog}
  /\ log0 = Len(log_csv.rows)

MainNext == MStart \/ MSplit \/ MSubmit \/ MWait

WorkerNext(w, Pages) ==
  \/ WStart(w)
  \/ WVisit(w, Pages)
  \/ WLogAcquire(w)
  \/ WLogWrite(w)
  \/ WLogRelease(w)
  \/ WSleep(w)
  \/ WQuit(w)
  \/ WResAcquire(w)
  \/ WResWrite(w)
  \/ WResRelease(w)

Next == MainNext \/ \E w \in DOMAIN wpc : WorkerNext(w, RunPages)

Spec == Init /\ [][Next]_vars

\* a whole run that finds neither results.csv nor screened_log.csv
InitFresh ==
  /\ \E n \in 0..MaxFreshLinks, nworkers \in 1..MaxW :
       MainHolds(SubSeq(RunLinks, 1, n), nworkers)
  /\ min_year = MIN_YEAR
  /\ city_filter = CITY_FILTER
  /\ out_csv = NoFile
  /\ log_csv = NoFile
  /\ log0 = 0

SpecFresh == InitFresh /\ [][Next]_vars

\* a run without sinks on at most MaxLinks links
InitFreshShort ==
  /\ \E n \in 0..MaxLinks, nworkers \in 1..MaxW :
       MainHolds(SubSeq(RunLinks, 1, n), nworkers)
  /\ min_year = MIN_YEAR
  /\ city_filter = CITY_FILTER
  /\ out_csv = NoFile
  /\ log_csv = NoFile
  /\ log0 = 0

\* the steps of worker w other than the visit of a page
WorkerLocal(w) ==
  \/ WStart(w)
  \/ WLogAcquire(w)
  \/ WLogWrite(w)
  \/ WLogRelease(w)
  \/ WSleep(w)
  \/ WQuit(w)
  \/ WResAcquire(w)
  \/ WResWrite(w)
  \/ WResRelease(w)

\* main is one thread and each worker is one thread of the pool: a thread
\* that can take its next step takes it, and the browser calls of a visit
\* return or raise (no worker stays at a visit for ever)
SpecFreshFair ==
  /\ InitFreshShort /\ [][Next]_vars
  /\ WF_vars(MainNext)
  /\ \A w \in 1..(MaxW + 1) :
       /\ WF_vars(w \in DOMAIN wpc /\ WorkerLocal(w))
       /\ []<>(w \in DOMAIN wpc => wpc[w] # "visit")

\* one link visited by one worker, for every page, min_year and city_filter
InitVisit ==
  /\ MainHolds(<<RunLinks[1]>>, 1)
  /\ min_year \in MinYearChoices
  /\ city_filter \in CityChoices
  /\ out_csv = NoFile
  /\ log_csv = NoFile
  /\ log0 = 0

NextVisit == MainNext \/ \E w \in DOMAIN wpc : WorkerNext(w, AllPages)

SpecVisit == InitVisit /\ [][NextVisit]_vars

\* the partitioner on n links and nworkers requested workers
InitPartition ==
  /\ \E n \in 0..MaxPartLinks, nworkers \in 1..MaxPartW :
       MainHolds([i \in 1..n |-> PartLink(i)], nworkers)
  /\ min_year = MIN_YEAR
  /\ city_filter = CITY_FILTER
  /\ out_csv = NoFile
  /\ log_csv = NoFile
  /\ log0 = 0

NextPartition == MStart \/ MSplit \/ MSubmit

SpecPartition == InitPartition /\ [][NextPartition]_vars

\* normalize_url called on one raw string
InitNormalize ==
  /\ npc = "call"
  /\ raw_href \in NormalizePool
  /\ norm_href = ""
  /\ norm_key = ""
  /\ tpc = "load"
  /\ max_pages = MAX_PAGES_DEFAULT
  /\ max_listings = 0
  /\ page_index = 1
  /\ current_url = ""
  /\ collected = <<>>
  /\ seen = {}
  /\ visited_page_urls = {}
  /\ page_links = <<>>
  /\ sel = 0
  /\ RunIdle

\* line 186: href = normalize_url(raw_href)
NCall ==
  /\ npc = "call"
  /\ norm_href' = Normalized(raw_href)
  /\ npc' = "once"
  /\ UNCHANGED <<raw_href, norm_key>>
  /\ UNCHANGED <<travVars, runVars>>

\* line 406: key = normalize_url(url), url being a link the traversal gave
NKey ==
  /\ npc = "once"
  /\ norm_key' = Normalized(norm_href)
  /\ npc' = "keyed"
  /\ UNCHANGED <<raw_href, norm_href>>
  /\ UNCHANGED <<travVars, runVars>>

NextNormalize == NCall \/ NKey

SpecNormalize == InitNormalize /\ [][NextNormalize]_vars

(***************************************************************************)
(* The properties                                                          *)
(***************************************************************************)
\* the rows screened_log.csv gained in this run, without the header
RunLogRows ==
  SubSeq(log_csv.rows, (IF log0 = 0 THEN 1 ELSE log0) + 1, Len(log_csv.rows))

\* the positions in RunLogRows of the rows of worker w
LogRowsOf(w) == {k \in 1..Len(RunLogRows) : RunLogRows[k].worker = w}

\* the link at position i of w's batch has been visited and its audit write is done
Logged(w, i) ==
  \/ i < idx[w]
  \/ i = idx[w] /\ wpc[w] \in {"log_release", "sleep"}

\* worker w has made the record of a link
Visited(w) == rec[w].status # "unknown"

\* C1: when a worker has finished its batch, every record it kept as saved
\* (the first per canonical URL) is a row of the result sink.
C1_SavedRowsWritten ==
  \A w \in DOMAIN wpc :
    wpc[w] = "done" =>
      \A i \in 1..Len(results[w]) :
        \E k \in 1..Len(out_csv.rows) : out_csv.rows[k] = ResultRow(results[w][i])

\* C2: every link of a batch has exactly one audit row once its visit is
\* over and none before; the row is there before the worker is at the next
\* link (idx[w] moves on only after the write), whatever the status.
C2_OneAuditRowPerLink ==
  \A w \in DOMAIN wpc :
    \A i \in 1..Len(batch[w]) :
      LET mine == {k \in LogRowsOf(w) : RunLogRows[k].index = i}
      IN  /\ Cardinality(mine) = IF Logged(w, i) THEN 1 ELSE 0
          /\ \A k \in mine : RunLogRows[k].url = batch[w][i]

\* a worker is done with a batch of two links whose visits ended differently
C2_Witness ==
  \E w \in DOMAIN wpc :
    /\ wpc[w] = "done"
    /\ Len(batch[w]) = 2
    /\ \E k \in LogRowsOf(w) : RunLogRows[k].status = "error"
    /\ \E k \in LogRowsOf(w) : RunLogRows[k].status = "too_old"

\* the year re.search(r'Built in\s*([0-9]{4})', text, re.IGNORECASE) finds in
\* each text of SrcAnswers (NoYear: no match), as Python gives it
PhraseYearOf(text) ==
  CASE text = "built in2019" -> 2019
    [] text = "Built in 2023" -> 2023
    [] text = "BUILT IN  2024x" -> 2024
    [] text = "Built in 202 built in 2024" -> 2024
    [] OTHER -> NoYear

\* the page worker w saw was fetched and its text was read
Readable(w) == browser[w].nav /\ ~browser[w].src.fail

SeenYear(w) == PhraseYearOf(browser[w].src.text)

\* the address of w's record contains the city filter, case-insensitively
AddressHasCity(w) == Contains(Lower(rec[w].address), Lower(city_filter))

\* C3: the first failing stage decides the status: a failed fetch gives
\* error; a read page without the phrase gives no_built_in whatever min_year
\* and city_filter are; a year below min_year gives too_old whatever the
\* address is; a year equal to min_year is not too_old; city_mismatch comes
\* only with a city filter set, a year that passed, and an address that is
\* empty or lacks the city.
C3_FirstFailingStage ==
  \A w \in DOMAIN wpc :
    Visited(w) =>
      /\ ~browser[w].nav => rec[w].status = "error"
      /\ Readable(w) /\ SeenYear(w) = NoYear => rec[w].status = "no_built_in"
      /\ Readable(w) /\ SeenYear(w) # NoYear /\ SeenYear(w) < min_year
           => rec[w].status = "too_old"
      /\ Readable(w) /\ SeenYear(w) = min_year => rec[w].status # "too_old"
      /\ rec[w].status = "city_mismatch"
           => /\ city_filter # ""
              /\ Readable(w)
              /\ SeenYear(w) # NoYear
              /\ SeenYear(w) >= min_year
              /\ (rec[w].address = "" \/ ~AddressHasCity(w))

\* a page too old whose address also fails the city filter
C3_Witness ==
  \E w \in DOMAIN wpc :
    /\ rec[w].status = "too_old"
    /\ city_filter # ""
    /\ ~AddressHasCity(w)

\* C4: a link is saved exactly when the fetch succeeded, a year was found,
\* the year is at least min_year, and no city filter is set or the address
\* contains the city; so every record of results passes the filters.
C4_SavedIffAllPass ==
  \A w \in DOMAIN wpc :
    /\ Visited(w) =>
         (rec[w].status = "saved"
            <=> /\ Readable(w)
                /\ SeenYear(w) # NoYear
                /\ SeenYear(w) >= min_year
                /\ (city_filter = "" \/ AddressHasCity(w)))
    /\ \A i \in 1..Len(results[w]) :
         /\ results[w][i].built_year >= min_year
         /\ city_filter = "" \/ Contains(Lower(results[w][i].address), Lower(city_filter))
         /\ \E j \in 1..Len(batch[w]) : results[w][i].url = batch[w][j]

\* a saved link whose year equals min_year, with the city filter set
C4_Witness ==
  \E w \in DOMAIN wpc :
    /\ rec[w].status = "saved"
    /\ rec[w].built_year = min_year
    /\ city_filter # ""
    /\ Len(results[w]) = 1

RECURSIVE Concat(_)
\* the concatenation of a sequence of sequences
Concat(qs) == IF qs = <<>> THEN <<>> ELSE Head(qs) \o Concat(Tail(qs))

\* the batches handed to the workers, in the order they were submitted
Dispatched == [k \in 1..Len(futures) |-> batch[futures[k]]]

\* C5: workers = min(W, N) and batch_size = ceil(N / workers); the batches
\* dispatched are non-empty slices whose concatenation in worker order is
\* the list of links (so each link goes to exactly one worker, in order),
\* every batch but the last has batch_size links, and 10 links for 3
\* workers give the sizes 4, 4, 2.
C5_Partition ==
  /\ mpc \in {"submit", "wait"} =>
       /\ workers <= W /\ workers <= Len(links)
       /\ workers = W \/ workers = Len(links)
       /\ batch_size * workers >= Len(links)
       /\ (batch_size - 1) * workers < Len(links)
  /\ mpc = "wait" =>
       /\ Concat(Dispatched) = links
       /\ \A k \in 1..Len(futures) : Dispatched[k] # <<>>
       /\ \A k \in 1..(Len(futures) - 1) : Len(Dispatched[k]) = batch_size
       /\ \A i \in 1..Len(links) :
            Cardinality({k \in 1..Len(futures) :
                           \E j \in 1..Len(Dispatched[k]) : Dispatched[k][j] = links[i]}) = 1
       /\ Len(links) = 10 /\ W = 3 =>
            [k \in 1..Len(futures) |-> Len(Dispatched[k])] = <<4, 4, 2>>

\* ten links have been dispatched for three requested workers
C5_Witness == mpc = "wait" /\ Len(links) = 10 /\ W = 3 /\ Len(futures) = 3

\* C6: with no link, the run ends without any worker and the result sink
\* exists and holds its header row only.
C6_EmptyRunLeavesHeader ==
  (mpc = "done" /\ links = <<>>) =>
    /\ \A w \in DOMAIN wpc : wpc[w] = "idle"
    /\ out_csv = [exists |-> TRUE, rows |-> <<ResHeaderRow>>]

\* the records worker w logged as saved, in the order of the audit sink
SavedOf(w) ==
  LET F[k \in 0..Len(RunLogRows)] ==
        IF k = 0 THEN <<>>
        ELSE IF RunLogRows[k].worker = w /\ RunLogRows[k].status = "saved"
             THEN Append(F[k - 1],
                         [title |-> RunLogRows[k].title, address |-> RunLogRows[k].address,
                          built_year |-> RunLogRows[k].built_year, url |-> RunLogRows[k].url])
             ELSE F[k - 1]
  IN  F[Len(RunLogRows)]

\* the records of q that are the first of their canonical URL
FirstPerKey(q) ==
  LET F[k \in 0..Len(q)] ==
        IF k = 0 THEN <<>>
        ELSE IF /\ Normalized(q[k].url) # ""
                /\ \A j \in 1..(k - 1) : Normalized(q[j].url) # Normalized(q[k].url)
             THEN Append(F[k - 1], q[k])
             ELSE F[k - 1]
  IN  F[Len(q)]

\* the row is the result row of the link u
RowOfLink(row, u) == row.kind = "row" /\ row.url = Hyperlink(u, row.title)

\* the worker is past its dedup pass
Deduped(w) == wpc[w] \in {"res_acquire", "res_write", "res_release", "done"}

InSink(w) == wpc[w] \in {"log_write", "log_release", "res_write", "res_release"}

\* C8: one lock guards both sinks: at most one worker at a time is inside a
\* write to the audit sink or to the result sink, and it holds csv_lock.
C8_OneWriter ==
  \A w1, w2 \in DOMAIN wpc :
    /\ InSink(w1) => csv_lock = w1
    /\ InSink(w1) /\ InSink(w2) => w1 = w2

\* a worker writes the result sink while another waits to write the audit sink
C8_Witness ==
  \E w1, w2 \in DOMAIN wpc :
    /\ wpc[w1] = "res_write"
    /\ wpc[w2] = "log_acquire"

\* C9: from an audit sink that did not exist, the sink holds its header
\* exactly once, as its first row, and never without a record after it.
C9_HeaderOnce ==
  log0 = 0 =>
    /\ ~log_csv.exists => log_csv.rows = <<>>
    /\ log_csv.exists =>
         /\ Len(log_csv.rows) >= 2
         /\ log_csv.rows[1] = LogHeaderRow
         /\ \A k \in 2..Len(log_csv.rows) : log_csv.rows[k].kind = "row"

\* two workers have written to an audit sink that did not exist
C9_Witness ==
  /\ log0 = 0
  /\ \E j, k \in 2..Len(log_csv.rows) : log_csv.rows[j].worker # log_csv.rows[k].worker

\* collected holds no link twice and never the sentinel, and seen is its set
NoRepeat ==
  /\ \A i, j \in 1..Len(collected) : i # j => collected[i] # collected[j]
  /\ \A i \in 1..Len(collected) : collected[i] # ""
  /\ seen = {collected[i] : i \in 1..Len(collected)}

\* a step only appends to collected
OnlyAppends ==
  /\ Len(collected') >= Len(collected)
  /\ SubSeq(collected', 1, Len(collected)) = collected

\* C10: at every point of the traversal the output holds no canonical URL
\* twice and never the sentinel, the seen-set is the set of the links of the
\* output, and no step reorders or removes a link: each stays where it was
\* first put.
C10_TraversalOutput == []NoRepeat /\ [][OnlyAppends]_vars

\* the traversal returned links gathered over two pages
C10_Witness ==
  /\ tpc = "returned"
  /\ page_index = 2
  /\ Len(collected) >= 2
  /\ Len(page_links) = 1
\* the traversal is over: it returned or it was left by an exception
TravStopped == tpc \in {"returned", "crashed"}

\* a page is revealed and collected from only within the max_pages iterations
WithinMaxPages ==
  /\ page_index <= max_pages + 1
  /\ tpc \in {"collect", "fallback", "advance"} => page_index <= max_pages
  /\ Cardinality(visited_page_urls) <= max_pages

\* a step that reads a current URL already visited ends the traversal, and a
\* step that starts collecting does so on a URL not visited before
LoopGuard ==
  /\ (tpc = "page" /\ page_index <= max_pages /\ tpc' # "crashed"
        /\ current_url' \in visited_page_urls) => tpc' = "returned"
  /\ (tpc = "page" /\ tpc' = "collect") =>
       /\ current_url' \notin visited_page_urls
       /\ visited_page_urls' = visited_page_urls \cup {current_url'}

\* C11: the traversal always terminates; it stops as soon as the current page
\* URL is one already visited, makes at most max_pages page iterations, and
\* collects from no page URL twice.
C11_TraversalTerminates ==
  /\ <>TravStopped
  /\ []WithinMaxPages
  /\ [][LoopGuard]_vars

\* the second page iteration found the URL of the first and returned
C11_Witness ==
  /\ tpc = "returned"
  /\ page_index = 2
  /\ Cardinality(visited_page_urls) = 1
  /\ current_url \in visited_page_urls

\* C12: no failure of a browser call leaves collect_listing_links as an
\* exception: the traversal is never left with the links gathered so far
\* unreturned.
C12_NoFaultEscapes == tpc # "crashed"
\* the raw string is an absolute http or https URL (a host with an unclosed
\* bracket is none)
AbsoluteInput(x) ==
  /\ \/ StartsWith(Lower(Strip(x)), "http://")
     \/ StartsWith(Lower(Strip(x)), "https://")
  /\ ~Contains(x, "[")

\* what follows "https://" in s
AfterScheme(s) == From(s, 8)

\* the host of s, s starting with "https://"
HostOf(s) == Upto(AfterScheme(s), FindAny(AfterScheme(s), "/", 0))

\* the host of the absolute URL x, in lower case
RawHost(x) == Lower(HostOf("https://" \o From(x, FindAny(x, "/", 0) + 2)))

\* s has the canonical form: scheme https, a lowercase host, no doubled or
\* trailing "/", no query and no fragment
CanonicalForm(s) ==
  /\ StartsWith(s, "https://")
  /\ Lower(HostOf(s)) = HostOf(s)
  /\ ~Contains(AfterScheme(s), "//")
  /\ ~StartsWith(From(s, Len(s) - 1), "/")
  /\ ~Contains(s, "?")
  /\ ~Contains(s, "#")

\* C13: normalize_url maps every absolute URL to the canonical form, and
\* "HTTP://WWW.Example.com//a//b/" to "https://example.com/a/b".
C13_AbsoluteToCanonical ==
  (npc # "call" /\ AbsoluteInput(raw_href)) =>
    /\ CanonicalForm(norm_href)
    /\ StartsWith(RawHost(raw_href), "www.") => ("www." \o HostOf(norm_href)) = RawHost(raw_href)
    /\ raw_href = "HTTP://WWW.Example.com//a//b/" => norm_href = "https://example.com/a/b"

\* the raw string has a scheme a browser cannot navigate to, in any letter
\* case and with surrounding whitespace
NonNavigable(x) ==
  \E sch \in {"javascript:", "mailto:", "tel:", "data:"} : StartsWith(Lower(Strip(x)), sch)

\* C14: for every raw string with a non-navigable scheme (javascript:,
\* mailto:, tel:, data:) and every one that does not parse, normalize_url
\* returns the sentinel "".
C14_NonNavigableToSentinel ==
  (npc # "call" /\ (NonNavigable(raw_href) \/ raw_href = "http://[::1/a")) => norm_href = ""

\* a worker that leaves the audit write of a link goes to the pause
PauseFollowsVisit ==
  \A w \in DOMAIN wpc :
    (wpc[w] = "log_release" /\ wpc'[w] # "log_release") => wpc'[w] = "sleep"

\* C15: within a worker the pause of line 397 follows the visit of every
\* link, whatever its status, before the next link is fetched.
C15_PauseAfterEveryVisit == [][PauseFollowsVisit]_vars

\* C16: after a successful fetch a failing extraction step only empties its
\* field and the link goes on through the stages; status error comes from a
\* failed navigation alone, and then title, address and built_year are empty.
C16_ErrorOnlyOnNavigation ==
  \A w \in DOMAIN wpc :
    Visited(w) =>
      /\ rec[w].status = "error" <=> ~browser[w].nav
      /\ rec[w].status = "error" =>
           rec[w].title = "" /\ rec[w].address = "" /\ rec[w].built_year = NoYear
      /\ browser[w].nav /\ browser[w].h1.fail => rec[w].title = ""
      /\ browser[w].nav /\ browser[w].addr.fail /\ browser[w].meta.fail => rec[w].address = ""
      /\ browser[w].nav /\ browser[w].src.fail => rec[w].status = "no_built_in"

\* the rows of worker w among the audit rows of this run, in sink order
WorkerRows(w) ==
  LET F[k \in 0..Len(RunLogRows)] ==
        IF k = 0 THEN <<>>
        ELSE IF RunLogRows[k].worker = w THEN Append(F[k - 1], RunLogRows[k])
             ELSE F[k - 1]
  IN  F[Len(RunLogRows)]

\* C17: in the audit sink the rows of any one worker stand in its visit
\* order: their index values are 1, 2, ... with none skipped, and the url of
\* each is the link at that position of the worker's batch.
C17_WorkerRowsInVisitOrder ==
  \A w \in DOMAIN wpc :
    \A k \in 1..Len(WorkerRows(w)) :
      /\ WorkerRows(w)[k].index = k
      /\ k <= Len(batch[w])
      /\ WorkerRows(w)[k].url = batch[w][k]
      /\ WorkerRows(w)[k].total = Len(batch[w])

\* the row of another worker stands between the two rows of a worker
C17_Witness ==
  \E w1, w2 \in DOMAIN wpc :
    /\ w1 # w2
    /\ Len(RunLogRows) = 3
    /\ RunLogRows[1].worker = w1
    /\ RunLogRows[2].worker = w2
    /\ RunLogRows[3].worker = w1

\* at the end of the run every worker that did not fail has visited and
\* logged its whole batch and is past its result write
OthersComplete ==
  mpc = "done" =>
    \A i \in 1..Len(futures) :
      \/ wpc[futures[i]] = "failed"
      \/ /\ wpc[futures[i]] = "done"
         /\ idx[futures[i]] = Len(batch[futures[i]]) + 1
         /\ Len(WorkerRows(futures[i])) = Len(batch[futures[i]])

RECURSIVE FirstNonBlank(_)
\* the stripped text of the first element of texts that is not blank, or ""
FirstNonBlank(texts) ==
  IF texts = <<>> THEN ""
  ELSE IF Strip(Head(texts)) # "" THEN Strip(Head(texts))
  ELSE FirstNonBlank(Tail(texts))

\* the address the page of worker w gives by the rule of the claim
AddressByRule(w) ==
  IF ~browser[w].addr.fail /\ FirstNonBlank(browser[w].addr.texts) # ""
  THEN FirstNonBlank(browser[w].addr.texts)
  ELSE IF ~browser[w].meta.fail /\ browser[w].meta.texts # <<>>
       THEN Strip(browser[w].meta.texts[1])
       ELSE ""

\* C19: the address of a fetched page is the text of the first address
\* element whose trimmed text is not empty; the meta description is used only
\* when no address element has text, and with neither the address is empty.
C19_FirstNonEmptyAddress ==
  \A w \in DOMAIN wpc :
    (Visited(w) /\ browser[w].nav) => rec[w].address = AddressByRule(w)

\* C20: normalize_url is idempotent: the key the dedup pass computes from a
\* link that is already a normal form is that link.
C20_Idempotent == npc = "keyed" => norm_key = norm_href

\* the maximum link counts that are configured (0 stands for None)
ConfiguredMax == {m \in {max_listings, MAX_LISTINGS} : m # 0}

====
